---- MODULE Spec2Model ----
(***************************************************************************)
(* Screener_Proc: the consolidator (clean_data.py) and the ranker          *)
(* (screen_data.py) as state machines.                                     *)
(*                                                                         *)
(* Spec follows the body of the region loop of clean_scraped_data for one  *)
(* region: the loop body reads only the scrape files matching the region's *)
(* glob pattern and writes only the region's own consolidated file.        *)
(* SpecScreen follows screen_companies for one region's consolidated       *)
(* table.                                                                  *)
(*                                                                         *)
(* A table cell is an integer or NA (pandas NaN / None; an empty CSV field *)
(* is read back as NaN, and NaN is written as an empty field).             *)
(***************************************************************************)
EXTENDS Integers, Sequences, FiniteSets, TLC

VARIABLES
    scraped,      \* data/scraped_data: file name -> scrape file, or NoFile
    cleanExists,  \* whether data/cleaned_data/<region>_screen_data.csv exists
    clean,        \* its rows, in file order
    cleanKind,    \* whether it parses and which columns it has
    pc,           \* "idle", or "retry" inside fetch_stock_data's retry loop
    data,         \* fetch_stock_data's dict: ticker -> None or price and cap
    failed,       \* fetch_stock_data's failed_tickers
    fi,           \* position of the retry loop in failed_tickers
    attempt,      \* the attempt of the retry loop that runs (range(retries))
    lastOp,       \* what the last completed operation did
    valid,        \* screen_companies: df_valid with its rank columns
    screened,     \* data/<region>_screened.csv: the rows, in file order
    screenedExists,
    collector,    \* the collector that runs: "yfinance", "yahooquery" or "none"
    tickers,      \* scrape_tickers' input list
    start,        \* scrape_tickers' i: where the current batch starts
    place,        \* scrape_tickers (yfinance): position of the ticker in the batch
    all_data,     \* scrape_tickers' records, in the order they were appended
    failed_tickers,
    info,         \* ticker -> what the provider supplied for the record kept
    log,          \* the provider requests and the time.sleep calls, in order
    cpc,          \* where scrape_tickers is: "off", "start", "fetch", "pause", "done"
    output_dir,   \* data/scraped_data as the collectors write it: the files
    clock,        \* datetime.datetime.now(), in seconds
    stage,        \* main.py: "clean", "screen", "returned", "raised"; "off": no run
    region,       \* the region the loop over the regions is at
    bodyDone,     \* whether the loop body has ended for that region
    skip          \* clean_scraped_data's argument

collectVars ==
    <<collector, tickers, start, place, all_data, failed_tickers, info, log, cpc,
      output_dir, clock>>

runVars == <<stage, region, bodyDone, skip>>

vars == <<scraped, cleanExists, clean, cleanKind, pc, data, failed, fi, attempt,
          lastOp, valid, screened, screenedExists, collectVars, runVars>>

cleanVars == <<scraped, cleanExists, clean, cleanKind, pc, data, failed, fi, attempt>>
screenVars == <<valid, screened, screenedExists>>

-----------------------------------------------------------------------------
(* Values *)

\* NaN, as a cell that no number equals.
NA == -1000

IsNA(v) == v = NA

\* Number of distinct embedded timestamps the scrape files may carry.
MaxStamp == 2
Stamps == 1..MaxStamp

\* The free-text part of the names of the region's scrape files.
FileNames == {"us_a", "us_b"}

\* Tickers of the scrape files, ordered as their symbols are.
ScrapeTickers == {1, 2}

Row(t, v) ==
    [Ticker |-> t, Price |-> v.Price, Cap |-> v.Cap, IC |-> v.IC,
     Sales |-> v.Sales, Cogs |-> v.Cogs, Opex |-> v.Opex, Div |-> v.Div,
     Debt |-> v.Debt, Equity |-> v.Equity]

RowFull ==
    [Price |-> 1, Cap |-> 2, IC |-> 2, Sales |-> 4, Cogs |-> 1, Opex |-> 1,
     Div |-> 1, Debt |-> 1, Equity |-> 2]

\* Records a collector can emit: complete, with fields the provider did not
\* supply, and with other market and statement values.
ScrapeRowVals ==
    { RowFull,
      [RowFull EXCEPT !.Price = NA, !.Div = NA],
      [RowFull EXCEPT !.Price = 3, !.Cap = 4, !.Debt = NA] }

RECURSIVE SortedSeq(_)
SortedSeq(S) ==
    IF S = {} THEN <<>>
    ELSE LET m == CHOOSE x \in S : \A y \in S : x <= y
         IN  <<m>> \o SortedSeq(S \ {m})

\* The rows of one scrape file: one record per ticker of the run.
FileRows ==
    UNION { { [i \in 1..Cardinality(S) |-> Row(SortedSeq(S)[i], f[SortedSeq(S)[i]])]
              : f \in [S -> ScrapeRowVals] }
            : S \in SUBSET ScrapeTickers }

\* A slot of the directory. "ok": a readable file named _<14 digits>.csv;
\* "unreadable": pd.read_csv raises on it; "nostamp": the name matches the glob
\* '<region>*_*.csv' but not '_(\d{14})\.csv$'; "baddate": a readable file
\* whose 14 digits are no date; "absent": no such file.
NoFile == [kind |-> "absent", stamp |-> 0, rows |-> <<>>]

ScrapeFiles ==
    [kind : {"ok"}, stamp : Stamps, rows : FileRows]
    \cup [kind : {"unreadable"}, stamp : Stamps, rows : {<<>>}]
    \cup [kind : {"nostamp"}, stamp : {0}, rows : {<<>>}]

-----------------------------------------------------------------------------
(* clean_scraped_data, full processing *)

Present == { n \in FileNames : scraped[n].kind # "absent" }

\* Every order glob.glob may return the region's files in.
RECURSIVE Orders(_)
Orders(S) ==
    IF S = {} THEN { <<>> }
    ELSE UNION { { <<n>> \o o : o \in Orders(S \ {n}) } : n \in S }

UsableAny(n) == scraped[n].kind # "absent"

\* lines 130-139: the name ends in _<14 digits>.csv and the file parses
Usable(n) == scraped[n].kind \in {"ok", "baddate"}

\* line 154: pd.to_datetime raises on a row whose Timestamp is no date (the
\* timestamps of Stamps are dates)
BadDate(names) ==
    \E j \in 1..Len(names) :
        scraped[names[j]].kind = "baddate" /\ scraped[names[j]].rows # << >>

\* df['Timestamp'] = timestamp
Stamped(file) ==
    [i \in 1..Len(file.rows) |-> [row |-> file.rows[i], Timestamp |-> file.stamp]]

\* file_data, concatenated in the order the files were read
RECURSIVE Concat(_)
Concat(names) ==
    IF names = <<>> THEN <<>>
    ELSE Stamped(scraped[Head(names)]) \o Concat(Tail(names))

BeforeOldestFirst(a, b) ==
    \/ a.row.Ticker < b.row.Ticker
    \/ a.row.Ticker = b.row.Ticker /\ a.Timestamp < b.Timestamp

BeforeTickerOnly(a, b) == a.row.Ticker < b.row.Ticker

\* by=['Ticker', 'Timestamp'], ascending=[True, False]
Before(a, b) ==
    \/ a.row.Ticker < b.row.Ticker
    \/ a.row.Ticker = b.row.Ticker /\ a.Timestamp > b.Timestamp

RECURSIVE InsertStable(_, _)
InsertStable(s, x) ==
    IF s = <<>> THEN <<x>>
    ELSE IF Before(x, Head(s)) THEN <<x>> \o s
    ELSE <<Head(s)>> \o InsertStable(Tail(s), x)

RECURSIVE SortFrom(_, _)
SortFrom(sorted, rest) ==
    IF rest = <<>> THEN sorted
    ELSE SortFrom(InsertStable(sorted, Head(rest)), Tail(rest))

\* sort_values on several keys is a stable lexsort: rows equal on both keys
\* keep the order of the concatenation.
SortValues(s) == SortFrom(<<>>, s)

KeepAll(s) == s

\* drop_duplicates(subset='Ticker', keep='first')
DropDuplicates(s) ==
    LET keep == { i \in 1..Len(s) :
                    \A j \in 1..(i - 1) : s[j].row.Ticker # s[i].row.Ticker }
        idx == SortedSeq(keep)
    IN  [k \in 1..Len(idx) |-> s[idx[k]]]

\* drop(columns=['Timestamp'])
DropTimestamp(s) == [i \in 1..Len(s) |-> s[i].row]

Consolidate(order) ==
    DropTimestamp(DropDuplicates(SortValues(Concat(SelectSeq(order, Usable)))))

\* The last completed operation was a full rebuild that wrote the table
\* ("rebuild again": so was the one before it; "rebuild after refresh": the
\* one before it was a completed partial refresh).
Rebuilt == lastOp \in {"rebuild", "rebuild again", "rebuild after refresh"}

ToCsvKeepingRows(df, file) ==
    [j \in 1..Len(df) |->
        IF \E h \in 1..Len(file) : file[h].Ticker = df[j].Ticker
        THEN file[CHOOSE h \in 1..Len(file) : file[h].Ticker = df[j].Ticker]
        ELSE df[j]]

\* line 165: clean_df.to_csv(clean_file, index=False) replaces the file
ToCsv(df, file) == df

FullProcessing(order) ==
    /\ IF order = <<>> \/ SelectSeq(order, Usable) = <<>>
       THEN /\ UNCHANGED <<clean, cleanExists, cleanKind>>
            /\ lastOp' = "norebuild"
       ELSE IF BadDate(SelectSeq(order, Usable))
       THEN /\ UNCHANGED <<clean, cleanExists, cleanKind>>
            /\ lastOp' = "raised"
       ELSE /\ clean' = ToCsv(Consolidate(order), clean)
            /\ cleanExists' = TRUE
            /\ cleanKind' = "ok"
            /\ lastOp' = IF Rebuilt THEN "rebuild again"
                         ELSE IF lastOp = "refresh" THEN "rebuild after refresh"
                         ELSE "rebuild"
    /\ data' = << >>
    /\ UNCHANGED <<scraped, pc, failed, fi, attempt>>

-----------------------------------------------------------------------------
(* fetch_stock_data and the partial refresh *)

\* retries=3
Retries == 3

\* The provider's current quote.
Fresh == [price |-> 7, cap |-> 9]

\* What the provider may answer for one ticker: a quote and a summary detail
\* with or without regularMarketPrice and marketCap (NA: .get() gives None),
\* something that is no dict, or (a single-ticker request) an exception.
DictAnswers == [kind : {"dict"}, price : {NA, Fresh.price}, cap : {NA, Fresh.cap}]
NoDict == [kind |-> "nodict", price |-> NA, cap |-> NA]
Raises == [kind |-> "exc", price |-> NA, cap |-> NA]
BulkAnswers == {NoDict} \cup DictAnswers
RetryAnswers == {Raises, NoDict} \cup DictAnswers

\* data[ticker] = None
NoneEntry == [kind |-> "None", price |-> NA, cap |-> NA]

\* lines 23-26 and 40-43
HasBoth(a) == a.kind = "dict" /\ a.price # NA /\ a.cap # NA

Tickers(tbl) == [i \in 1..Len(tbl) |-> tbl[i].Ticker]
TickerSet(tbl) == { tbl[i].Ticker : i \in 1..Len(tbl) }

HasRefreshColumnsAlways(kind) == TRUE

\* line 101: the table has the columns Ticker, Market Price and Market Cap
HasRefreshColumns(kind) == kind # "nomarket"

\* lines 96-106 and 14-31: read the consolidated file, one bulk request
RefreshBegin ==
    /\ pc = "idle"
    /\ cleanExists
    /\ IF cleanKind = "unparsable"
       THEN /\ lastOp' = "refresherror"       \* pd.read_csv raises
            /\ UNCHANGED <<pc, data, failed, fi, attempt>>
       ELSE IF ~HasRefreshColumns(cleanKind)
       THEN /\ lastOp' = "refreshabort"       \* line 104: continue
            /\ UNCHANGED <<pc, data, failed, fi, attempt>>
       ELSE \/ /\ lastOp' = "refresherror"    \* the bulk request raises
               /\ data' = << >>
               /\ UNCHANGED <<pc, failed, fi, attempt>>
            \/ \E bulk \in [TickerSet(clean) -> BulkAnswers] :
                 /\ data' = [t \in { u \in TickerSet(clean) : HasBoth(bulk[u]) } |-> bulk[t]]
                 /\ failed' = SelectSeq(Tickers(clean), LAMBDA t : ~HasBoth(bulk[t]))
                 /\ fi' = 1
                 /\ attempt' = 0
                 /\ pc' = "retry"
                 /\ UNCHANGED lastOp
    /\ UNCHANGED <<scraped, clean, cleanExists, cleanKind>>

Put(d, t, v) == [u \in DOMAIN d \cup {t} |-> IF u = t THEN v ELSE d[u]]

\* lines 36-53: what one attempt for failed_tickers[fi] does with the
\* provider's answer
RetryStep(ans) ==
    LET t == failed[fi] IN
    IF HasBoth(ans)
    THEN /\ data' = Put(data, t, ans)
         /\ fi' = fi + 1
         /\ attempt' = 0
    ELSE IF ans.kind = "exc" /\ attempt = Retries - 1
    THEN /\ data' = Put(data, t, NoneEntry)
         /\ fi' = fi + 1
         /\ attempt' = 0
    ELSE /\ data' = data
         /\ IF attempt + 1 < Retries
            THEN fi' = fi /\ attempt' = attempt + 1
            ELSE fi' = fi + 1 /\ attempt' = 0

\* lines 34-53: one attempt of the retry loop for failed_tickers[fi]
RetryAttempt ==
    /\ pc = "retry"
    /\ fi <= Len(failed)
    /\ \E ans \in RetryAnswers : RetryStep(ans)
    /\ UNCHANGED <<scraped, clean, cleanExists, cleanKind, pc, failed, lastOp>>

\* price_series / market_cap_series, then Series.map
MapPrice(t) == IF t \in DOMAIN data /\ data[t].kind # "None" THEN data[t].price ELSE NA
MapCap(t) == IF t \in DOMAIN data /\ data[t].kind # "None" THEN data[t].cap ELSE NA

CombineFirstOverwrite(new, old) == new

CombineFirst(new, old) == IF IsNA(new) THEN old ELSE new

RefreshRowSwapped(r) ==
    [r EXCEPT !.Price = CombineFirst(MapCap(r.Ticker), r.Price),
              !.Cap = CombineFirst(MapPrice(r.Ticker), r.Cap)]

RefreshRow(r) ==
    [r EXCEPT !.Price = CombineFirst(MapPrice(r.Ticker), r.Price),
              !.Cap = CombineFirst(MapCap(r.Ticker), r.Cap)]

\* lines 108-115: update the two columns and write the file
RefreshApply ==
    /\ pc = "retry"
    /\ fi > Len(failed)
    /\ clean' = [i \in 1..Len(clean) |-> RefreshRow(clean[i])]
    /\ pc' = "idle"
    /\ lastOp' = "refresh"
    /\ failed' = << >>
    /\ fi' = 1
    /\ attempt' = 0
    /\ UNCHANGED <<scraped, cleanExists, cleanKind, data>>

RefreshModeWhenExists(s) == cleanExists

\* line 96: if skip is False and os.path.exists(clean_file)
RefreshMode(s) == s = FALSE /\ cleanExists

\* lines 94-168: the body of the loop over the regions, up to the retry loop
CleanRegion(s) ==
    IF RefreshMode(s)
    THEN RefreshBegin
    ELSE \E order \in Orders(Present) : FullProcessing(order)

\* One call for the region, with either argument.
CleanScrapedData ==
    /\ pc = "idle"
    /\ \E s \in BOOLEAN : CleanRegion(s)
    /\ UNCHANGED screenVars

\* No collector runs.
CollectorOff ==
    /\ collector = "none"
    /\ tickers = << >>
    /\ start = 1
    /\ place = 1
    /\ all_data = << >>
    /\ failed_tickers = << >>
    /\ info = << >>
    /\ log = << >>
    /\ cpc = "off"
    /\ output_dir = {}
    /\ clock = 0

\* No run of main.py over the regions.
RunOff ==
    /\ stage = "off"
    /\ region = 1
    /\ bodyDone = FALSE
    /\ skip = TRUE

TypeOK ==
    /\ scraped \in [FileNames -> ScrapeFiles \cup {NoFile}]
    /\ cleanKind = "ok"
    /\ cleanExists \in BOOLEAN
    /\ pc \in {"idle", "retry"}
    /\ fi \in 1..(Len(failed) + 1)
    /\ attempt \in 0..(Retries - 1)
    /\ DOMAIN data \subseteq TickerSet(clean)

Init ==
    /\ scraped \in [FileNames -> ScrapeFiles \cup {NoFile}]
    /\ cleanExists = FALSE
    /\ clean = << >>
    /\ cleanKind = "ok"
    /\ RunOff
    /\ pc = "idle"
    /\ data = << >>
    /\ failed = << >>
    /\ fi = 1
    /\ attempt = 0
    /\ lastOp = "none"
    /\ valid = << >>
    /\ screened = << >>
    /\ screenedExists = FALSE
    /\ CollectorOff

Next ==
    \/ CleanScrapedData /\ UNCHANGED <<collectVars, runVars>>
    \/ RetryAttempt /\ UNCHANGED <<screenVars, collectVars, runVars>>
    \/ RefreshApply /\ UNCHANGED <<screenVars, collectVars, runVars>>

Spec == Init /\ [][Next]_vars

-----------------------------------------------------------------------------
(* screen_companies *)

\* Rows of the consolidated table that screen_companies is given: valid rows
\* that differ in one input of a ratio, rows with zero or negative equity, and
\* rows that miss one condition of the filter.
ScreenRowVals ==
    { RowFull,
      [RowFull EXCEPT !.Cap = 4],
      [RowFull EXCEPT !.Sales = 3],
      [RowFull EXCEPT !.Div = 0, !.Debt = 2],
      [RowFull EXCEPT !.Equity = -1],
      [RowFull EXCEPT !.Equity = 0, !.Debt = 2],
      [RowFull EXCEPT !.Cap = 0, !.Sales = 9],
      [RowFull EXCEPT !.Price = 0],
      [RowFull EXCEPT !.IC = 0],
      [RowFull EXCEPT !.Opex = NA],
      [RowFull EXCEPT !.Div = NA],
      [RowFull EXCEPT !.Debt = NA],
      [RowFull EXCEPT !.Equity = NA] }

\* Largest consolidated table screened.
MaxRows == 3

\* A consolidated table: one row per ticker, in ticker order.
ScreenTable(f) == [i \in DOMAIN f |-> Row(i, f[i])]

\* A column as a sequence value (its cells evaluated once).
Series(f) == f \o << >>

Abs(x) == IF x < 0 THEN 0 - x ELSE x

RECURSIVE Gcd(_, _)
Gcd(a, b) == IF b = 0 THEN a ELSE Gcd(b, a % b)

\* A float cell holding a quotient, kept exact: n/d in lowest terms with
\* d >= 0; 1/0 is inf, -1/0 is -inf, 0/0 is NaN.
NaN == [n |-> 0, d |-> 0]

IsNaN(x) == x.n = 0 /\ x.d = 0

\* a / b on two columns
Ratio(a, b) ==
    IF a = NA \/ b = NA THEN NaN
    ELSE LET g == Gcd(Abs(a), Abs(b))
             sgn == IF b < 0 THEN 0 - 1 ELSE 1
         IN  IF g = 0 THEN NaN
             ELSE [n |-> sgn * (a \div g), d |-> sgn * (b \div g)]

RatioLess(x, y) == x.n * y.d < y.n * x.d

EbitWithoutOpex(r) ==
    IF r.Sales = NA \/ r.Cogs = NA \/ r.Opex = NA THEN NA
    ELSE r.Sales - r.Cogs

\* lines 36-40
Ebit(r) ==
    IF r.Sales = NA \/ r.Cogs = NA \/ r.Opex = NA THEN NA
    ELSE r.Sales - r.Cogs - r.Opex

\* lines 36-46: the derived columns
WithMetrics(r) ==
    [Ticker |-> r.Ticker, Price |-> r.Price, Cap |-> r.Cap, IC |-> r.IC,
     Div |-> r.Div, Debt |-> r.Debt, Equity |-> r.Equity,
     EBIT |-> Ebit(r),
     EY |-> Ratio(Ebit(r), r.Cap),
     ROIC |-> Ratio(Ebit(r), r.IC),
     DP |-> Ratio(r.Div, r.Price),
     DE |-> Ratio(r.Debt, r.Equity)]

\* column > 0: False on NaN
Gt0(v) == v # NA /\ v > 0

ValidMaskCapNotNegative(m) ==
    /\ Gt0(m.Price)
    /\ m.Cap # NA /\ m.Cap >= 0
    /\ Gt0(m.IC)
    /\ m.EBIT # NA
    /\ m.Div # NA
    /\ m.Equity # NA
    /\ m.Debt # NA

\* lines 49-57
ValidMask(m) ==
    /\ Gt0(m.Price)
    /\ Gt0(m.Cap)
    /\ Gt0(m.IC)
    /\ m.EBIT # NA
    /\ m.Div # NA
    /\ m.Equity # NA
    /\ m.Debt # NA

\* ascending=True / ascending=False
Precedes(x, y, ascending) ==
    IF ascending THEN RatioLess(x, y) ELSE RatioLess(y, x)

RECURSIVE InsertKey(_, _, _, _)
InsertKey(s, p, keys, ascending) ==
    IF s = <<>> THEN <<p>>
    ELSE IF Precedes(keys[p], keys[Head(s)], ascending) THEN <<p>> \o s
    ELSE <<Head(s)>> \o InsertKey(Tail(s), p, keys, ascending)

RECURSIVE ArgSortFrom(_, _, _, _)
ArgSortFrom(sorted, p, keys, ascending) ==
    IF p > Len(keys) THEN sorted
    ELSE ArgSortFrom(IF IsNaN(keys[p]) THEN sorted
                     ELSE InsertKey(sorted, p, keys, ascending),
                     p + 1, keys, ascending)

\* The positions of the values that are not NaN, in rank order.
ArgSort(keys, ascending) == ArgSortFrom(<<>>, 1, keys, ascending)

DenseRankAt(sorted, k, keys) ==
    Cardinality({ keys[sorted[j]] : j \in 1..k })

\* method='min': a value equal to the one before it shares its rank, the
\* first value of a tie group gets its position.
RECURSIVE MinRankAt(_, _, _)
MinRankAt(sorted, k, keys) ==
    IF k > 1 /\ keys[sorted[k]] = keys[sorted[k - 1]]
    THEN MinRankAt(sorted, k - 1, keys)
    ELSE k

\* Series.rank(ascending=..., method='min'); NaN keeps a NaN rank
RankMin(keys, ascending) ==
    LET sorted == ArgSort(keys, ascending)
    IN  Series([p \in 1..Len(keys) |->
            IF IsNaN(keys[p]) THEN NA
            ELSE MinRankAt(sorted,
                           CHOOSE k \in 1..Len(sorted) : sorted[k] = p, keys)])

Plus(a, b) == IF a = NA \/ b = NA THEN NA ELSE a + b

DebtRankNoOffset(M, sub) == sub

DebtRankMissing(M, sub) == NA

\* line 78: M + sub_rank
DebtRankOffset(M, sub) == Plus(M, sub)

CombinedSumOfFour(r) == Plus(Plus(r.EYRank, r.ROICRank), Plus(r.DPRank, r.DERank))

\* lines 85-89
CombinedRank(r) == Plus(Plus(r.EYRank, r.ROICRank), r.composite_rank)

\* lines 64-89: df_valid with its rank columns
RankFrame(dv) ==
    LET n == Len(dv)
        ey == RankMin(Series([i \in 1..n |-> dv[i].EY]), FALSE)
        roic == RankMin(Series([i \in 1..n |-> dv[i].ROIC]), FALSE)
        dp == RankMin(Series([i \in 1..n |-> dv[i].DP]), FALSE)
        pos == SortedSeq({ i \in 1..n : dv[i].Equity > 0 })
        non == SortedSeq({ i \in 1..n : ~(dv[i].Equity > 0) })
        M == Len(pos)
        posRank == RankMin(Series([k \in 1..Len(pos) |-> dv[pos[k]].DE]), TRUE)
        subRank == RankMin(Series([k \in 1..Len(non) |-> Ratio(dv[non[k]].Debt, 1)]), TRUE)
        de == Series([i \in 1..n |->
                 IF dv[i].Equity > 0
                 THEN posRank[CHOOSE k \in 1..Len(pos) : pos[k] = i]
                 ELSE DebtRankOffset(M, subRank[CHOOSE k \in 1..Len(non) : non[k] = i])])
        cs == Series([i \in 1..n |-> Plus(dp[i], de[i])])
        cr == RankMin(Series([i \in 1..n |-> Ratio(cs[i], 1)]), TRUE)
        ranked == [i \in 1..n |->
                     [row |-> dv[i], EYRank |-> ey[i], ROICRank |-> roic[i],
                      DPRank |-> dp[i], DERank |-> de[i],
                      composite_score |-> cs[i], composite_rank |-> cr[i]]]
    IN  Series([i \in 1..n |->
            [row |-> dv[i], EYRank |-> ey[i], ROICRank |-> roic[i],
             DPRank |-> dp[i], DERank |-> de[i],
             composite_score |-> cs[i], composite_rank |-> cr[i],
             Combined_rank |-> CombinedRank(ranked[i])]])

\* lines 33-58 and 64-89
ScreenFrame(tbl) ==
    RankFrame(SelectSeq(Series([i \in 1..Len(tbl) |-> WithMetrics(tbl[i])]), ValidMask))

\* lines 95-99: output_columns
Project(r) ==
    [Ticker |-> r.row.Ticker, Price |-> r.row.Price, Cap |-> r.row.Cap,
     EY |-> r.row.EY, ROIC |-> r.row.ROIC, DP |-> r.row.DP, DE |-> r.row.DE,
     Combined_rank |-> r.Combined_rank]

\* line 92: sort_values('Combined_rank') sorts one key with the default
\* kind='quicksort', which is not stable: any order of the rows that is
\* ascending in Combined_rank may come out.
SortOrders(frame) ==
    { o \in Orders(1..Len(frame)) :
        \A k \in 1..(Len(o) - 1) :
            frame[o[k]].Combined_rank <= frame[o[k + 1]].Combined_rank }

EmptyNever(frame) == FALSE

\* line 60: df_valid.empty
Empty(frame) == frame = << >>

ScreenCompanies ==
    /\ pc = "idle"
    /\ IF ~cleanExists
       THEN /\ lastOp' = "screen skipped"
            /\ UNCHANGED screenVars
       ELSE IF cleanKind # "ok"
       THEN /\ lastOp' = "raised"      \* lines 33-57: pd.read_csv or a KeyError
            /\ UNCHANGED screenVars
       ELSE LET frame == ScreenFrame(clean) IN
            IF Empty(frame)
            THEN /\ lastOp' = "screen empty"
                 /\ valid' = frame
                 /\ UNCHANGED <<screened, screenedExists>>
            ELSE /\ lastOp' = "screen"
                 /\ valid' = frame
                 /\ \E o \in SortOrders(frame) :
                       screened' = [k \in 1..Len(o) |-> Project(frame[o[k]])]
                 /\ screenedExists' = TRUE
    /\ UNCHANGED cleanVars

InitScreen ==
    /\ scraped = [n \in FileNames |-> NoFile]
    /\ \/ cleanExists = FALSE /\ clean = << >>
       \/ /\ cleanExists = TRUE
          /\ \E n \in 0..MaxRows : \E f \in [1..n -> ScreenRowVals] :
                clean = ScreenTable(f)
    /\ cleanKind = "ok"
    /\ RunOff
    /\ pc = "idle"
    /\ data = << >>
    /\ failed = << >>
    /\ fi = 1
    /\ attempt = 0
    /\ lastOp = "none"
    /\ valid = << >>
    /\ screened = << >>
    /\ screenedExists = FALSE
    /\ CollectorOff

\* main.py, step 3: one screening per run.
NextScreen ==
    lastOp = "none" /\ ScreenCompanies /\ UNCHANGED <<collectVars, runVars>>

SpecScreen == InitScreen /\ [][NextScreen]_vars

-----------------------------------------------------------------------------
(* The collectors: scrape_data_yfinance.py and scrape_data_yahooquery.py *)

\* Longest input list of scrape_tickers.
MaxTickers == 3

\* batch_size (10 in the source), scaled to the input lists.
BatchSize == 2

\* Input lists: the tickers 1..n in ascending and in descending order.
InputLists ==
    UNION { { [j \in 1..n |-> j], [j \in 1..n |-> n + 1 - j] } : n \in 0..MaxTickers }

\* What the provider supplies for one ticker (NA: the key is not there):
\* info, the latest balance sheet and the latest financials.
InfoFull ==
    [kind |-> "info", Price |-> 1, Cap |-> 2, Div |-> 1, IC |-> 2, Debt |-> 1,
     Equity |-> 2, Sales |-> 4, Cogs |-> 1, Opex |-> 1, GP |-> 3, OI |-> 2]

NoInfo(kind) ==
    [kind |-> kind, Price |-> NA, Cap |-> NA, Div |-> NA, IC |-> NA, Debt |-> NA,
     Equity |-> NA, Sales |-> NA, Cogs |-> NA, Opex |-> NA, GP |-> NA, OI |-> NA]

\* Everything; no dividend figure and no operating expenses; no price and
\* empty statements.
InfoAnswers ==
    { InfoFull,
      [InfoFull EXCEPT !.Div = NA, !.Opex = NA],
      [NoInfo("info") EXCEPT !.Cap = 2, !.Div = 1] }

\* The request raises.
InfoRaises == NoInfo("exc")

\* yahooquery: all_modules holds nothing usable for the ticker.
NoData == NoInfo("nodata")

\* scrape_data_yfinance.py lines 67-133: the record built from an answer
YfRecord(t, a) ==
    Row(t, [Price |-> a.Price, Cap |-> a.Cap, IC |-> a.IC, Sales |-> a.Sales,
            Cogs |-> a.Cogs,
            Opex |-> IF a.Opex # NA THEN a.Opex
                     ELSE IF a.GP # NA /\ a.OI # NA THEN a.GP - a.OI
                     ELSE NA,
            Div |-> IF a.Div = NA THEN 0 ELSE a.Div,
            Debt |-> a.Debt, Equity |-> a.Equity])

\* scrape_data_yahooquery.py lines 63-115
YqRecord(t, a) ==
    Row(t, [Price |-> a.Price, Cap |-> a.Cap, IC |-> a.IC, Sales |-> a.Sales,
            Cogs |-> a.Cogs, Opex |-> a.Opex,
            Div |-> IF a.Div = NA THEN 0 ELSE a.Div,
            Debt |-> a.Debt, Equity |-> a.Equity])

\* {'Ticker': ticker}: every other column of the table is empty
TickerOnly(t) == [row |-> Row(t, NoInfo("nodata")), tickerOnly |-> TRUE]

Item(r) == [row |-> r, tickerOnly |-> FALSE]

\* Entries of the log. A unit is what one retry loop fetches: a ticker
\* (a list of one) or a batch.
Fetch(unit, ok) == [ev |-> "fetch", unit |-> unit, ok |-> ok]
Wait(unit) == [ev |-> "wait", unit |-> unit, ok |-> FALSE]
Pause(unit) == [ev |-> "pause", unit |-> unit, ok |-> FALSE]

NoRetrySleep(unit) == << >>

\* time.sleep(wait_time)
RetrySleep(unit) == <<Wait(unit)>>

\* if attempt < retries - 1
MoreAttempts(a) == a < Retries - 1

\* The files and the consolidator's and the ranker's state.
pipelineVars ==
    <<scraped, cleanExists, clean, cleanKind, pc, data, failed, fi, lastOp, valid,
      screened, screenedExists, runVars, output_dir, clock>>

BatchWhole(s, b) == SubSeq(tickers, 1, Len(tickers))

\* tickers[i:i + batch_size]
BatchAt(s, b) ==
    SubSeq(tickers, s, IF s + b - 1 < Len(tickers) THEN s + b - 1 ELSE Len(tickers))

Batch == BatchAt(start, BatchSize)

\* scrape_tickers, lines 156-158 (yfinance) and 141-144 (yahooquery)
ScrapeBegin ==
    /\ cpc = "start"
    /\ all_data' = << >>
    /\ failed_tickers' = << >>
    /\ start' = 1
    /\ place' = 1
    /\ attempt' = 0
    /\ cpc' = IF Len(tickers) = 0 THEN "done" ELSE "fetch"
    /\ UNCHANGED <<collector, tickers, info, log, pipelineVars>>

\* for ticker in batch: the next ticker, or the end of the batch
NextInBatch ==
    /\ attempt' = 0
    /\ IF place < Len(Batch)
       THEN place' = place + 1 /\ cpc' = cpc
       ELSE place' = 1 /\ cpc' = "pause"

\* scrape_data_yfinance.py: one attempt of get_ticker_data (lines 62-140) for
\* the ticker scrape_tickers is at, and lines 162-168 once it returns
GetTickerData ==
    /\ collector = "yfinance"
    /\ cpc = "fetch"
    /\ LET t == Batch[place] IN
       \E ans \in InfoAnswers \cup {InfoRaises} :
          IF ans.kind = "info"
          THEN /\ all_data' = Append(all_data, Item(YfRecord(t, ans)))
               /\ info' = Put(info, t, ans)
               /\ log' = Append(log, Fetch(<<t>>, TRUE))
               /\ UNCHANGED failed_tickers
               /\ NextInBatch
          ELSE IF MoreAttempts(attempt)
          THEN /\ log' = log \o <<Fetch(<<t>>, FALSE)>> \o RetrySleep(<<t>>)
               /\ attempt' = attempt + 1
               /\ UNCHANGED <<all_data, failed_tickers, info, place, cpc>>
          ELSE /\ failed_tickers' = Append(failed_tickers, t)
               /\ log' = Append(log, Fetch(<<t>>, FALSE))
               /\ UNCHANGED <<all_data, info>>
               /\ NextInBatch
    /\ UNCHANGED <<collector, tickers, start, pipelineVars>>

\* scrape_data_yahooquery.py lines 55-117: data_list of an answered request
DataList(batch, answer) ==
    [j \in 1..Len(batch) |->
        IF answer[batch[j]].kind = "info"
        THEN Item(YqRecord(batch[j], answer[batch[j]]))
        ELSE TickerOnly(batch[j])]

\* lines 148-153: len(data) <= 1
Incomplete(dataList) ==
    LET only == SelectSeq(dataList, LAMBDA d : d.tickerOnly)
    IN  [j \in 1..Len(only) |-> only[j].row.Ticker]

\* scrape_data_yahooquery.py: one attempt of get_tickers_data (lines 41-125)
\* for the batch scrape_tickers is at, and lines 148-153 once it returns
GetTickersData ==
    /\ collector = "yahooquery"
    /\ cpc = "fetch"
    /\ \/ \E answer \in [{ Batch[j] : j \in 1..Len(Batch) } -> InfoAnswers \cup {NoData}] :
             LET dataList == DataList(Batch, answer) IN
             /\ all_data' = all_data \o dataList
             /\ failed_tickers' = failed_tickers \o Incomplete(dataList)
             /\ info' = [t \in DOMAIN info \cup { u \in DOMAIN answer : answer[u].kind = "info" }
                           |-> IF t \in DOMAIN answer THEN answer[t] ELSE info[t]]
             /\ log' = Append(log, Fetch(Batch, TRUE))
             /\ attempt' = 0
             /\ cpc' = "pause"
       \/ /\ MoreAttempts(attempt)
          /\ log' = log \o <<Fetch(Batch, FALSE)>> \o RetrySleep(Batch)
          /\ attempt' = attempt + 1
          /\ UNCHANGED <<all_data, failed_tickers, info, cpc>>
       \/ /\ ~MoreAttempts(attempt)
          /\ all_data' = all_data \o [j \in 1..Len(Batch) |-> TickerOnly(Batch[j])]
          /\ failed_tickers' = failed_tickers \o Batch
          /\ log' = Append(log, Fetch(Batch, FALSE))
          /\ attempt' = 0
          /\ cpc' = "pause"
          /\ UNCHANGED info
    /\ UNCHANGED <<collector, tickers, start, place, pipelineVars>>

\* time.sleep(1) at the end of a batch, then the next batch or the return
BatchSleep ==
    /\ cpc = "pause"
    /\ log' = Append(log, Pause(Batch))
    /\ start' = start + BatchSize
    /\ cpc' = IF start + BatchSize > Len(tickers) THEN "done" ELSE "fetch"
    /\ UNCHANGED <<collector, tickers, place, all_data, failed_tickers, info, attempt,
                   pipelineVars>>

\* clean_data.py lines 36-53: whether time.sleep(wait_time) follows an attempt
FetchSleeps(ans, a) ==
    IF HasBoth(ans) THEN FALSE
    ELSE IF ans.kind = "exc" THEN a < Retries - 1
    ELSE TRUE

\* fetch_stock_data called by a partial refresh
FetchStockData ==
    /\ collector = "none"
    /\ lastOp = "none"
    /\ RefreshBegin
    /\ UNCHANGED <<screenVars, collectVars, runVars>>

\* One attempt of fetch_stock_data's retry loop, with the log kept.
FetchRetry ==
    /\ pc = "retry"
    /\ fi <= Len(failed)
    /\ \E ans \in RetryAnswers :
          /\ RetryStep(ans)
          /\ log' = log \o <<Fetch(<<failed[fi]>>, HasBoth(ans))>>
                        \o (IF FetchSleeps(ans, attempt)
                            THEN RetrySleep(<<failed[fi]>>) ELSE << >>)
    /\ UNCHANGED <<scraped, clean, cleanExists, cleanKind, pc, failed, lastOp,
                   screenVars, runVars, collector, tickers, start, place, all_data,
                   failed_tickers, info, cpc, output_dir, clock>>

\* A collector is given a list of tickers, or a partial refresh finds a
\* consolidated table of one region.
InitProvider ==
    /\ scraped = [n \in FileNames |-> NoFile]
    /\ cleanKind = "ok"
    /\ RunOff
    /\ pc = "idle"
    /\ data = << >>
    /\ failed = << >>
    /\ fi = 1
    /\ attempt = 0
    /\ lastOp = "none"
    /\ valid = << >>
    /\ screened = << >>
    /\ screenedExists = FALSE
    /\ start = 1
    /\ place = 1
    /\ all_data = << >>
    /\ failed_tickers = << >>
    /\ info = << >>
    /\ log = << >>
    /\ output_dir = {}
    /\ clock = 0
    /\ \/ /\ collector \in {"yfinance", "yahooquery"}
          /\ tickers \in InputLists
          /\ cpc = "start"
          /\ cleanExists = FALSE
          /\ clean = << >>
       \/ /\ collector = "none"
          /\ tickers = << >>
          /\ cpc = "off"
          /\ cleanExists = TRUE
          /\ \E n \in 0..MaxTickers : clean = [t \in 1..n |-> Row(t, RowFull)]

NextProvider ==
    \/ ScrapeBegin
    \/ GetTickerData
    \/ GetTickersData
    \/ BatchSleep
    \/ FetchStockData
    \/ FetchRetry
    \/ RefreshApply /\ UNCHANGED <<screenVars, collectVars, runVars>>

\* scrape_tickers has returned, or the partial refresh has ended.
ProviderDone ==
    \/ cpc = "done"
    \/ collector = "none" /\ lastOp \in {"refresh", "refresherror"}

SpecProvider == InitProvider /\ [][NextProvider]_vars

\* The programs are sequential: a program that can take a step takes it.
SpecProviderLive == SpecProvider /\ WF_vars(NextProvider)

-----------------------------------------------------------------------------
(* main.py: clean_scraped_data, then screen_companies, over the regions *)

\* regions: 'us', 'cn', 'hk'
Regions == <<"us", "cn", "hk">>

\* The scrape files a region's directory may hold when the loop reaches it:
\* two readable files, one that does not parse, one without a timestamp in its
\* name, and two whose 14 digits are no date, with a row and without rows.
RunFiles ==
    { NoFile,
      [kind |-> "ok", stamp |-> 1,
       rows |-> <<Row(1, RowFull), Row(2, [RowFull EXCEPT !.Price = NA, !.Div = NA])>>],
      [kind |-> "ok", stamp |-> 2,
       rows |-> <<Row(1, [RowFull EXCEPT !.Price = 3, !.Cap = 4, !.Debt = NA])>>],
      [kind |-> "unreadable", stamp |-> 1, rows |-> << >>],
      [kind |-> "nostamp", stamp |-> 0, rows |-> << >>],
      [kind |-> "baddate", stamp |-> 0, rows |-> <<Row(2, RowFull)>>],
      [kind |-> "baddate", stamp |-> 0, rows |-> << >>] }

\* The consolidated file the region may have: none; a table with rows that
\* pass the ranker's filter; a table with none; a table without the Market
\* Price and Market Cap columns ("nomarket"); a table with them but without
\* Past Annual Sales ("nostatement"); a file that does not parse.
RunCleanFiles ==
    { [exists |-> FALSE, kind |-> "ok", rows |-> << >>],
      [exists |-> TRUE, kind |-> "ok",
       rows |-> <<Row(1, RowFull), Row(3, [RowFull EXCEPT !.Cap = 4])>>],
      [exists |-> TRUE, kind |-> "ok", rows |-> <<Row(1, [RowFull EXCEPT !.Price = 0])>>],
      [exists |-> TRUE, kind |-> "nomarket",
       rows |-> <<Row(1, [RowFull EXCEPT !.Price = NA, !.Cap = NA])>>],
      [exists |-> TRUE, kind |-> "nostatement",
       rows |-> <<Row(1, [RowFull EXCEPT !.Sales = NA])>>],
      [exists |-> TRUE, kind |-> "unparsable", rows |-> << >>] }

\* The screened file the region may have from an earlier run.
RunScreenedFiles ==
    { [exists |-> FALSE, rows |-> << >>],
      [exists |-> TRUE,
       rows |-> <<[Ticker |-> 2, Price |-> 1, Cap |-> 2, EY |-> Ratio(1, 1),
                   ROIC |-> Ratio(1, 1), DP |-> Ratio(1, 1), DE |-> Ratio(1, 2),
                   Combined_rank |-> 3]>>] }

\* The loop turns to a region: the files clean_scraped_data (stage "clean") or
\* screen_companies (stage "screen") will find for it.
EnterRegion(stg) ==
    /\ IF stg = "clean"
       THEN /\ scraped' \in [FileNames -> RunFiles]
            /\ screened' = << >>
            /\ screenedExists' = FALSE
       ELSE /\ scraped' = [n \in FileNames |-> NoFile]
            /\ \E o \in RunScreenedFiles :
                  /\ screened' = o.rows
                  /\ screenedExists' = o.exists
    /\ \E c \in RunCleanFiles :
          /\ cleanExists' = c.exists
          /\ cleanKind' = c.kind
          /\ clean' = c.rows
    /\ pc' = "idle"
    /\ data' = << >>
    /\ failed' = << >>
    /\ fi' = 1
    /\ attempt' = 0
    /\ lastOp' = "none"
    /\ valid' = << >>

\* clean_data.py lines 93-168: the loop body for the region, up to the retry
\* loop of a partial refresh; an exception it does not catch ends the run
CleanBody ==
    /\ stage = "clean"
    /\ ~bodyDone
    /\ pc = "idle"
    /\ CleanRegion(skip)
    /\ stage' = IF lastOp' = "raised" THEN "raised" ELSE stage
    /\ bodyDone' = (pc' = "idle" /\ lastOp' # "raised")
    /\ UNCHANGED <<region, skip, screenVars, collectVars>>

RetryBody ==
    /\ stage = "clean"
    /\ RetryAttempt
    /\ UNCHANGED <<screenVars, collectVars, runVars>>

ApplyBody ==
    /\ stage = "clean"
    /\ RefreshApply
    /\ bodyDone' = TRUE
    /\ UNCHANGED <<stage, region, skip, screenVars, collectVars>>

\* screen_data.py lines 24-103: the loop body for the region
ScreenBody ==
    /\ stage = "screen"
    /\ ~bodyDone
    /\ ScreenCompanies
    /\ stage' = IF lastOp' = "raised" THEN "raised" ELSE stage
    /\ bodyDone' = (lastOp' # "raised")
    /\ UNCHANGED <<region, skip, collectVars>>

\* for region ... : the next region; after the last one clean_scraped_data
\* returns and main.py calls screen_companies, which returns after its last
NextRegion ==
    /\ stage \in {"clean", "screen"}
    /\ bodyDone
    /\ IF region < Len(Regions)
       THEN /\ region' = region + 1
            /\ stage' = stage
            /\ bodyDone' = FALSE
            /\ EnterRegion(stage)
       ELSE IF stage = "clean"
       THEN /\ region' = 1
            /\ stage' = "screen"
            /\ bodyDone' = FALSE
            /\ EnterRegion("screen")
       ELSE /\ stage' = "returned"
            /\ UNCHANGED <<region, bodyDone, cleanVars, screenVars, lastOp>>
    /\ UNCHANGED <<skip, collectVars>>

InitRun ==
    /\ stage = "clean"
    /\ region = 1
    /\ bodyDone = FALSE
    /\ skip \in BOOLEAN
    /\ scraped \in [FileNames -> RunFiles]
    /\ \E c \in RunCleanFiles :
          /\ cleanExists = c.exists
          /\ cleanKind = c.kind
          /\ clean = c.rows
    /\ pc = "idle"
    /\ data = << >>
    /\ failed = << >>
    /\ fi = 1
    /\ attempt = 0
    /\ lastOp = "none"
    /\ valid = << >>
    /\ screened = << >>
    /\ screenedExists = FALSE
    /\ CollectorOff

NextRun ==
    \/ CleanBody
    \/ RetryBody
    \/ ApplyBody
    \/ ScreenBody
    \/ NextRegion

SpecRun == InitRun /\ [][NextRun]_vars

-----------------------------------------------------------------------------
(* main.py steps 2 and 3 on one region: full rebuild, then screening *)

\* Statement and market values of a record, among them those of the
\* end-to-end scenario and the same with a later price and market cap.
ScenarioVals ==
    { [Price |-> 10, Cap |-> 1000, IC |-> 500, Sales |-> 100, Cogs |-> 40,
       Opex |-> 20, Div |-> 1, Debt |-> 50, Equity |-> 200],
      [Price |-> 12, Cap |-> 1200, IC |-> 500, Sales |-> 100, Cogs |-> 40,
       Opex |-> 20, Div |-> 1, Debt |-> 50, Equity |-> 200],
      RowFull,
      [RowFull EXCEPT !.Price = 3, !.Cap = 4] }

ScenarioRows ==
    UNION { { [i \in 1..Cardinality(S) |-> Row(SortedSeq(S)[i], f[SortedSeq(S)[i]])]
              : f \in [S -> ScenarioVals] }
            : S \in SUBSET ScrapeTickers }

ScenarioFiles == [kind : {"ok"}, stamp : Stamps, rows : ScenarioRows]

InitEndToEnd ==
    /\ scraped \in [FileNames -> ScenarioFiles]
    /\ cleanExists = FALSE
    /\ clean = << >>
    /\ cleanKind = "ok"
    /\ RunOff
    /\ pc = "idle"
    /\ data = << >>
    /\ failed = << >>
    /\ fi = 1
    /\ attempt = 0
    /\ lastOp = "none"
    /\ valid = << >>
    /\ screened = << >>
    /\ screenedExists = FALSE
    /\ CollectorOff

\* clean_data.clean_scraped_data(): skip=True, full processing
RebuildStep ==
    /\ lastOp = "none"
    /\ pc = "idle"
    /\ CleanRegion(TRUE)
    /\ UNCHANGED <<screenVars, collectVars, runVars>>

\* screen_data.screen_companies()
ScreenStep ==
    /\ lastOp \in {"rebuild", "norebuild"}
    /\ ScreenCompanies
    /\ UNCHANGED <<collectVars, runVars>>

NextEndToEnd ==
    \/ RebuildStep
    \/ ScreenStep

SpecEndToEnd == InitEndToEnd /\ [][NextEndToEnd]_vars

-----------------------------------------------------------------------------
(* The collectors' runs and the files they write to data/scraped_data *)

\* Last second of the clock.
MaxClock == 3

\* csv_name, as main.py gives it
CsvNames == {"us_nyse"}

\* The input lists of the runs.
RunLists == { l \in InputLists : Len(l) <= BatchSize }

\* len(range(0, len(tickers), batch_size)): each batch ends with time.sleep(1)
Batches(l) == (Len(l) + BatchSize - 1) \div BatchSize

\* f'{csv_name}_{timestamp}.csv' with timestamp = now.strftime('%Y%m%d%H%M%S')
TimestampedName(c, t) == [csv |-> c, stamped |-> TRUE, stamp |-> t]

\* f'{csv_name}.csv'
PlainName(c) == [csv |-> c, stamped |-> FALSE, stamp |-> 0]

\* scrap_data.py lines 55-103: the record built from an answer
ScrapRecord(t, a) ==
    Row(t, [Price |-> a.Price, Cap |-> a.Cap, IC |-> NA, Sales |-> a.Sales,
            Cogs |-> NA, Opex |-> NA,
            Div |-> IF a.Div = NA THEN 0 ELSE a.Div,
            Debt |-> NA, Equity |-> NA])

\* What scrape_tickers returns for the list l when the provider answers for
\* the tickers of got and fails on every attempt for the others.
YfAllData(l, got) ==
    LET kept == SelectSeq(l, LAMBDA t : t \in got)
    IN  [j \in 1..Len(kept) |-> Item(YfRecord(kept[j], InfoFull))]

YqAllData(l, got) ==
    [j \in 1..Len(l) |->
        IF l[j] \in got THEN Item(YqRecord(l[j], InfoFull)) ELSE TickerOnly(l[j])]

ScrapAllData(l, got) ==
    LET kept == SelectSeq(l, LAMBDA t : t \in got)
    IN  [j \in 1..Len(kept) |-> Item(ScrapRecord(kept[j], InfoFull))]

\* df.to_csv(output_file, index=False): creates the file or replaces it
SaveCsv(files, nm, table) ==
    { f \in files : f.name # nm } \cup { [name |-> nm, df |-> table] }

\* What a collector's run leaves alone.
collectorFrame ==
    <<scraped, cleanExists, clean, cleanKind, pc, data, failed, fi, attempt, lastOp,
      valid, screened, screenedExists, runVars, collector, tickers, start, place,
      all_data, failed_tickers, info, log, cpc>>

\* scrape_data_yfinance.scrape_yfinance(tickers, csv_name): the run takes at
\* least one second per batch, then names the file after the clock
ScrapeYfinance ==
    \E c \in CsvNames : \E l \in RunLists : \E got \in SUBSET { l[j] : j \in 1..Len(l) } :
    \E t \in (clock + Batches(l))..MaxClock :
        /\ clock' = t
        /\ output_dir' = SaveCsv(output_dir, TimestampedName(c, t), YfAllData(l, got))
        /\ UNCHANGED collectorFrame

\* scrape_data_yahooquery.scrape_yahooquery(tickers, csv_name)
ScrapeYahooquery ==
    \E c \in CsvNames : \E l \in RunLists : \E got \in SUBSET { l[j] : j \in 1..Len(l) } :
    \E t \in (clock + Batches(l))..MaxClock :
        /\ clock' = t
        /\ output_dir' = SaveCsv(output_dir, TimestampedName(c, t), YqAllData(l, got))
        /\ UNCHANGED collectorFrame

\* scrap_data.scrap_yfinance(tickers, csv_name): the name has no timestamp
ScrapYfinance ==
    \E c \in CsvNames : \E l \in RunLists : \E got \in SUBSET { l[j] : j \in 1..Len(l) } :
    \E t \in (clock + Batches(l))..MaxClock :
        /\ clock' = t
        /\ output_dir' = SaveCsv(output_dir, PlainName(c), ScrapAllData(l, got))
        /\ UNCHANGED collectorFrame

\* Time passes between two runs.
Tick ==
    /\ clock < MaxClock
    /\ clock' = clock + 1
    /\ UNCHANGED <<output_dir, collectorFrame>>

InitDirectory ==
    /\ scraped = [n \in FileNames |-> NoFile]
    /\ cleanExists = FALSE
    /\ clean = << >>
    /\ cleanKind = "ok"
    /\ RunOff
    /\ pc = "idle"
    /\ data = << >>
    /\ failed = << >>
    /\ fi = 1
    /\ attempt = 0
    /\ lastOp = "none"
    /\ valid = << >>
    /\ screened = << >>
    /\ screenedExists = FALSE
    /\ CollectorOff

NextDirectory ==
    \/ ScrapeYfinance
    \/ ScrapeYahooquery
    \/ ScrapYfinance
    \/ Tick

SpecDirectory == InitDirectory /\ [][NextDirectory]_vars

-----------------------------------------------------------------------------
(* Consolidation: what the claims say about the region's files *)

FileTickers(n) == { scraped[n].rows[i].Ticker : i \in 1..Len(scraped[n].rows) }

\* The files read successfully that hold a record of ticker t.
Holders(t) == { n \in FileNames : scraped[n].kind = "ok" /\ t \in FileTickers(n) }

RowIn(n, t) ==
    scraped[n].rows[CHOOSE i \in 1..Len(scraped[n].rows) : scraped[n].rows[i].Ticker = t]

IsLatestHolder(n, t) ==
    /\ n \in Holders(t)
    /\ \A m \in Holders(t) : scraped[m].stamp <= scraped[n].stamp

\* Two files that hold the same ticker carry the same timestamp.
TiedTicker ==
    \E n, m \in FileNames :
        /\ n # m
        /\ scraped[n].kind = "ok" /\ scraped[m].kind = "ok"
        /\ scraped[n].stamp = scraped[m].stamp
        /\ FileTickers(n) \cap FileTickers(m) # {}

\* C1: after a full rebuild, every ticker held by a scrape file has a
\* consolidated row that equals, field for field, the row of a file with the
\* latest timestamp among the files that hold the ticker; no field comes from
\* an older file.
C1_LatestRowWins ==
    Rebuilt =>
        \A t \in ScrapeTickers :
            Holders(t) # {} =>
                \E i \in 1..Len(clean) :
                    /\ clean[i].Ticker = t
                    /\ \E n \in Holders(t) :
                          IsLatestHolder(n, t) /\ clean[i] = RowIn(n, t)

\* A rebuilt table whose ticker 1 is unknown in the latest file's Price and
\* Div while the older file had values.
C1_Witness ==
    /\ Rebuilt
    /\ scraped["us_a"].kind = "ok" /\ scraped["us_b"].kind = "ok"
    /\ scraped["us_a"].stamp < scraped["us_b"].stamp
    /\ 1 \in FileTickers("us_a") \cap FileTickers("us_b")
    /\ RowIn("us_a", 1).Price # NA /\ RowIn("us_b", 1).Price = NA
    /\ Len(clean) >= 1 /\ clean[1].Ticker = 1 /\ clean[1].Price = NA

\* C2: the consolidated table never holds a ticker twice, through full
\* rebuilds and partial refreshes, and after a full rebuild its tickers are
\* exactly the tickers of the scrape files that were read successfully.
C2_OneRowPerTicker ==
    /\ \A i, j \in 1..Len(clean) : clean[i].Ticker = clean[j].Ticker => i = j
    /\ Rebuilt =>
          TickerSet(clean) =
              UNION { FileTickers(n) : n \in { m \in FileNames : scraped[m].kind = "ok" } }

\* A refreshed table of two tickers, ticker 1 held by both files.
C2_Witness ==
    /\ lastOp = "refresh"
    /\ Len(clean) = 2
    /\ Cardinality(Holders(1)) = 2
    /\ Cardinality(Holders(2)) = 1

\* C3 as stated: a full rebuild that follows a full rebuild of the same files
\* leaves the table as it was, whatever the order the files are enumerated in.
C3_IdempotentAnyOrder ==
    [][(Rebuilt /\ Rebuilt') => clean' = clean]_vars

\* C3, amended: a full rebuild that follows a full rebuild of the same files
\* leaves the table as it was, for every enumeration order, when no two files
\* that hold the same ticker carry the same timestamp.
C3_IdempotentNoTies ==
    [][(Rebuilt /\ Rebuilt' /\ ~TiedTicker) => clean' = clean]_vars

\* Two rebuilds in a row over two files with different timestamps that hold
\* different rows of ticker 1.
C3_Witness ==
    /\ lastOp = "rebuild again"
    /\ Cardinality(Holders(1)) = 2
    /\ ~TiedTicker
    /\ RowIn("us_a", 1) # RowIn("us_b", 1)

\* The step that ends a partial refresh by writing the table.
RefreshWrites == pc = "retry" /\ pc' = "idle"

\* The fresh fetch of ticker t failed: no entry, or None.
FetchFailed(t) == t \notin DOMAIN data \/ data[t].kind = "None"

\* C4: a partial refresh leaves every field of the row of a ticker whose fetch
\* failed as it was, and a refresh whose bulk request raises leaves the whole
\* table as it was.
C4_FailedFetchKeepsRow ==
    [][ /\ RefreshWrites =>
              /\ Len(clean') = Len(clean)
              /\ \A i \in 1..Len(clean) :
                    FetchFailed(clean[i].Ticker) => clean'[i] = clean[i]
        /\ lastOp' = "refresherror" => clean' = clean /\ cleanExists' = cleanExists
      ]_vars

\* A refreshed table: ticker 1 mapped to None, ticker 2 absent from the
\* mapping, both rows with a known price.
C4_Witness ==
    /\ lastOp = "refresh"
    /\ Len(clean) = 2
    /\ 1 \in DOMAIN data /\ data[1].kind = "None"
    /\ 2 \notin DOMAIN data
    /\ clean[1].Price # NA /\ clean[2].Price # NA

OtherColumns(r) == [r EXCEPT !.Price = 0, !.Cap = 0]

\* C5: a partial refresh stores an entry only for a ticker for which both a
\* price and a market cap were obtained; it sets Market Price and Market Cap of
\* exactly those tickers to the fetched values, and leaves every other row,
\* every other column, the set of rows and their order as they were.
C5_RefreshOverwritesOnlyFetched ==
    [][ RefreshWrites =>
          /\ \A t \in DOMAIN data : data[t].kind = "None" \/ HasBoth(data[t])
          /\ Len(clean') = Len(clean)
          /\ \A i \in 1..Len(clean) :
                /\ OtherColumns(clean'[i]) = OtherColumns(clean[i])
                /\ IF FetchFailed(clean[i].Ticker)
                   THEN clean'[i] = clean[i]
                   ELSE /\ clean'[i].Price = data[clean[i].Ticker].price
                        /\ clean'[i].Cap = data[clean[i].Ticker].cap
      ]_vars

\* A refreshed table: ticker 1 carries the fetched price and market cap,
\* ticker 2, with no entry, keeps its unknown price.
C5_Witness ==
    /\ lastOp = "refresh"
    /\ Len(clean) = 2
    /\ 1 \in DOMAIN data /\ HasBoth(data[1])
    /\ clean[1].Price = Fresh.price /\ clean[1].Cap = Fresh.cap
    /\ 2 \notin DOMAIN data
    /\ clean[2].Price = NA

-----------------------------------------------------------------------------
(* Screening: what the claims say about the consolidated table *)

\* The filter as the specification words it, on a row of the table.
Passes(r) ==
    /\ r.Price # NA /\ r.Price > 0
    /\ r.Cap # NA /\ r.Cap > 0
    /\ r.IC # NA /\ r.IC > 0
    /\ r.Sales # NA /\ r.Cogs # NA /\ r.Opex # NA
    /\ r.Div # NA
    /\ r.Equity # NA
    /\ r.Debt # NA

\* The filtered set, in the order of the table.
Filtered == SelectSeq(clean, Passes)

EbitOf(r) == r.Sales - r.Cogs - r.Opex

\* a is strictly better than b on a metric (rows of the filtered set, whose
\* Market Cap, Invested Capital and Market Price are positive).
BetterEbitYield(a, b) == EbitOf(a) * b.Cap > EbitOf(b) * a.Cap
BetterRoic(a, b) == EbitOf(a) * b.IC > EbitOf(b) * a.IC
BetterDividendYield(a, b) == a.Div * b.Price > b.Div * a.Price
\* for rows with positive Common Equity
LowerDebtRatio(a, b) == a.Debt * b.Equity < b.Debt * a.Equity

Sign(x) == IF x < 0 THEN 0 - 1 ELSE 1

\* Total Debt / Common Equity of a is strictly lower than that of b, as
\* numbers: a negative equity gives a negative ratio, a zero equity inf.
LowerDebtRatioValue(a, b) ==
    (Sign(a.Equity) * a.Debt) * Abs(b.Equity) < (Sign(b.Equity) * b.Debt) * Abs(a.Equity)

NumBetter(i, Better(_, _)) ==
    Cardinality({ j \in 1..Len(Filtered) : Better(Filtered[j], Filtered[i]) })

PositiveEquity == { i \in 1..Len(Filtered) : Filtered[i].Equity > 0 }
NonPositiveEquity == { i \in 1..Len(Filtered) : Filtered[i].Equity <= 0 }

\* df_valid holds the filtered set, row for row.
FrameIsFiltered ==
    /\ Len(valid) = Len(Filtered)
    /\ \A i \in 1..Len(valid) : valid[i].row.Ticker = Filtered[i].Ticker

PosInClean(t) == CHOOSE i \in 1..Len(clean) : clean[i].Ticker = t

\* C6: a row is in the screened result only if Market Price, Market Cap and
\* Invested Capital are positive and EBIT, Dividends, Common Equity and Total
\* Debt are known; every row that fails this is absent from the result, and
\* the ranks are those of the table with the failing rows taken out.
C6_FilterCorrect ==
    lastOp = "screen" =>
        /\ \A k \in 1..Len(screened) :
              \E i \in 1..Len(clean) :
                  clean[i].Ticker = screened[k].Ticker /\ Passes(clean[i])
        /\ { screened[k].Ticker : k \in 1..Len(screened) }
              = { valid[i].row.Ticker : i \in 1..Len(valid) }
        /\ valid = ScreenFrame(Filtered)

\* A table with a row of Market Cap 0 whose EBIT is the highest, screened
\* to the two other rows.
C6_Witness ==
    /\ lastOp = "screen"
    /\ Len(clean) = 3
    /\ clean[1].Cap = 0 /\ clean[1].Sales = 9
    /\ Len(screened) = 2

\* C7 as stated: the rank of a row on a metric is 1 plus the number of rows
\* of the filtered set that are strictly better on it; higher is better for
\* EBIT yield, ROIC and dividend yield, a lower ratio is better for the debt
\* ratio.
C7_MinRankEveryMetric ==
    lastOp = "screen" =>
        /\ FrameIsFiltered
        /\ \A i \in 1..Len(valid) :
              /\ valid[i].EYRank = 1 + NumBetter(i, BetterEbitYield)
              /\ valid[i].ROICRank = 1 + NumBetter(i, BetterRoic)
              /\ valid[i].DPRank = 1 + NumBetter(i, BetterDividendYield)
              /\ valid[i].DERank = 1 + NumBetter(i, LowerDebtRatioValue)

\* C7, amended: as stated for EBIT yield, ROIC and dividend yield; for the
\* debt ratio, the rank of a row with positive Common Equity is 1 plus the
\* number of rows with positive Common Equity whose ratio is strictly lower.
C7_MinRankPositiveEquityDebt ==
    lastOp = "screen" =>
        /\ FrameIsFiltered
        /\ \A i \in 1..Len(valid) :
              /\ valid[i].EYRank = 1 + NumBetter(i, BetterEbitYield)
              /\ valid[i].ROICRank = 1 + NumBetter(i, BetterRoic)
              /\ valid[i].DPRank = 1 + NumBetter(i, BetterDividendYield)
              /\ i \in PositiveEquity =>
                    valid[i].DERank =
                        1 + Cardinality({ j \in PositiveEquity :
                                            LowerDebtRatio(Filtered[j], Filtered[i]) })

\* Two rows tied on EBIT yield at rank 1 and a third at rank 3, among rows
\* with positive equity whose debt ratios differ.
C7_Witness ==
    /\ lastOp = "screen"
    /\ Len(valid) = 3
    /\ \E i, j, k \in 1..3 :
          /\ i # j
          /\ valid[i].EYRank = 1 /\ valid[j].EYRank = 1 /\ valid[k].EYRank = 3
          /\ valid[i].row.Equity > 0 /\ valid[k].row.Equity > 0
          /\ valid[i].DERank # valid[k].DERank

\* C8: with M the number of filtered rows with positive Common Equity, those
\* rows have debt ranks in 1..M, min-ranked on Total Debt / Common Equity
\* among themselves; a row with Common Equity <= 0 has M plus its min-rank on
\* Total Debt among such rows, so it ranks after every positive-equity row.
C8_PartitionedDebtRank ==
    lastOp = "screen" =>
        /\ FrameIsFiltered
        /\ \A i \in PositiveEquity :
              /\ valid[i].DERank \in 1..Cardinality(PositiveEquity)
              /\ valid[i].DERank =
                    1 + Cardinality({ j \in PositiveEquity :
                                        LowerDebtRatio(Filtered[j], Filtered[i]) })
        /\ \A i \in NonPositiveEquity :
              /\ valid[i].DERank =
                    Cardinality(PositiveEquity) + 1
                    + Cardinality({ j \in NonPositiveEquity :
                                      Filtered[j].Debt < Filtered[i].Debt })
              /\ \A j \in PositiveEquity : valid[i].DERank > valid[j].DERank

\* One row with positive equity and two with zero and negative equity whose
\* Total Debt differs: debt ranks 1, 2 and 3.
C8_Witness ==
    /\ lastOp = "screen"
    /\ Len(valid) = 3
    /\ Cardinality(PositiveEquity) = 1
    /\ \E i, j \in NonPositiveEquity :
          /\ valid[i].row.Equity < 0 /\ valid[j].row.Equity = 0
          /\ valid[i].DERank = 2 /\ valid[j].DERank = 3

CompositeKey(i) == valid[i].DPRank + valid[i].DERank

\* C9: the combined score of a screened row is its EBIT-yield rank plus its
\* ROIC rank plus its composite rank, the composite rank being 1 plus the
\* number of filtered rows whose (dividend-yield rank + debt rank) is
\* strictly lower.
C9_CombinedScore ==
    lastOp = "screen" =>
        /\ \A i \in 1..Len(valid) :
              valid[i].Combined_rank =
                  valid[i].EYRank + valid[i].ROICRank
                  + 1 + Cardinality({ j \in 1..Len(valid) :
                                        CompositeKey(j) < CompositeKey(i) })
        /\ \A k \in 1..Len(screened) :
              \E i \in 1..Len(valid) :
                  /\ valid[i].row.Ticker = screened[k].Ticker
                  /\ screened[k].Combined_rank = valid[i].Combined_rank

\* Three screened rows whose composite ranks are 1, 2 and 3 while the sum
\* of the dividend-yield rank and the debt rank is larger.
C9_Witness ==
    /\ lastOp = "screen"
    /\ Len(screened) = 3
    /\ { valid[i].composite_rank : i \in 1..Len(valid) } = {1, 2, 3}
    /\ \E i \in 1..Len(valid) : CompositeKey(i) > valid[i].composite_rank + 1

\* C10: the screened rows are in ascending order of combined score, and rows
\* with the same combined score are in the order of the consolidated table.
C10_SortedTiesKeepInputOrder ==
    lastOp = "screen" =>
        \A k, l \in 1..Len(screened) :
            k < l =>
                /\ screened[k].Combined_rank <= screened[l].Combined_rank
                /\ screened[k].Combined_rank = screened[l].Combined_rank =>
                      PosInClean(screened[k].Ticker) < PosInClean(screened[l].Ticker)

-----------------------------------------------------------------------------
(* The collectors and the retry loops: what the claims say *)

InputSet == { tickers[j] : j \in 1..Len(tickers) }

\* The positions of the records of ticker t in the emitted table.
RecordsOf(t) == { j \in 1..Len(all_data) : all_data[j].row.Ticker = t }

\* t is in the failed tickers.
Listed(t) == \E j \in 1..Len(failed_tickers) : failed_tickers[j] = t

\* The fetch of t succeeded: the provider answered with data for it.
Supplied(t) == t \in DOMAIN info

\* Every field other than the ticker is unknown.
AllUnknown(r) == r = Row(r.Ticker, NoInfo("nodata"))

\* C11: when scrape_tickers returns, the emitted table holds exactly one
\* record for every input ticker; a ticker whose fetch failed has a record whose
\* fields other than the ticker are all unknown and is in the failed tickers;
\* a ticker is in the failed tickers only if its fetch failed.
C11_OneRecordPerTicker ==
    cpc = "done" =>
        /\ Len(all_data) = Len(tickers)
        /\ \A t \in InputSet :
              /\ Cardinality(RecordsOf(t)) = 1
              /\ ~Supplied(t) =>
                    /\ \A j \in RecordsOf(t) : AllUnknown(all_data[j].row)
                    /\ Listed(t)
              /\ Listed(t) => ~Supplied(t)

\* The units that were attempted.
LogUnits == { log[j].unit : j \in { h \in 1..Len(log) : log[h].ev = "fetch" } }

\* The positions of the attempts made for unit u.
FetchesOf(u) == { j \in 1..Len(log) : log[j].ev = "fetch" /\ log[j].unit = u }

\* At most `retries` attempts per unit, none after a successful one, and a
\* delay between two attempts.
RetriesBounded ==
    \A u \in LogUnits :
        /\ Cardinality(FetchesOf(u)) <= Retries
        /\ \A a, b \in FetchesOf(u) :
              a < b =>
                  /\ ~log[a].ok
                  /\ \E w \in (a + 1)..(b - 1) : log[w] = Wait(u)

\* The result for a ticker of a unit whose attempts all failed: None from
\* get_ticker_data (the ticker is reported failed), a record of the ticker
\* alone from get_tickers_data, no entry or None from fetch_stock_data.
FailureResultOf(t) ==
    IF collector = "yfinance" THEN Listed(t)
    ELSE IF collector = "yahooquery"
    THEN Listed(t) /\ \A j \in RecordsOf(t) : all_data[j].tickerOnly
    ELSE FetchFailed(t)

FailureResult ==
    ProviderDone =>
        \A u \in LogUnits :
            (\A a \in FetchesOf(u) : ~log[a].ok) =>
                /\ Cardinality(FetchesOf(u)) = Retries
                /\ \A j \in 1..Len(u) : FailureResultOf(u[j])

\* C12: in get_ticker_data, get_tickers_data and the retry loop of
\* fetch_stock_data, a unit is attempted at most `retries` times, never again
\* after a successful attempt, with a delay between two attempts; every run
\* ends, and a unit whose attempts all failed has had `retries` attempts and
\* has the failure result.
C12_BoundedRetries ==
    /\ [](RetriesBounded /\ FailureResult)
    /\ <>ProviderDone

\* A finished yfinance run: one ticker failed three times and is reported,
\* another succeeded at its second attempt.
C12_Witness ==
    /\ cpc = "done"
    /\ collector = "yfinance"
    /\ \E t, u \in InputSet :
          /\ Cardinality(FetchesOf(<<t>>)) = Retries
          /\ Listed(t)
          /\ Cardinality(FetchesOf(<<u>>)) = 2
          /\ Supplied(u)

\* C13: in every emitted record, a field the provider did not supply is
\* unknown, never zero; so is the dividend of a ticker with no dividend figure.
\* (Operating expenses are unknown when neither they nor gross profit and
\* operating income were supplied.)
C13_UnknownNeverZero ==
    \A j \in 1..Len(all_data) :
        LET r == all_data[j].row IN
        IF Supplied(r.Ticker)
        THEN LET a == info[r.Ticker] IN
             /\ a.Price = NA => r.Price = NA
             /\ a.Cap = NA => r.Cap = NA
             /\ a.Div = NA => r.Div = NA
             /\ a.IC = NA => r.IC = NA
             /\ a.Debt = NA => r.Debt = NA
             /\ a.Equity = NA => r.Equity = NA
             /\ a.Sales = NA => r.Sales = NA
             /\ a.Cogs = NA => r.Cogs = NA
             /\ (a.Opex = NA /\ (a.GP = NA \/ a.OI = NA)) => r.Opex = NA
        ELSE AllUnknown(r)

\* The units of the attempts, in order, a unit retried counted once.
RECURSIVE AttemptedUnits(_, _)
AttemptedUnits(n, last) ==
    IF n > Len(log) THEN << >>
    ELSE IF log[n].ev = "fetch" /\ <<log[n].unit>> # last
    THEN <<log[n].unit>> \o AttemptedUnits(n + 1, <<log[n].unit>>)
    ELSE AttemptedUnits(n + 1, last)

\* The batches after which scrape_tickers has slept, in order, up to log
\* position n.
PausedBatches(n) ==
    LET p == SelectSeq(SubSeq(log, 1, n), LAMBDA e : e.ev = "pause")
    IN  [j \in 1..Len(p) |-> p[j].unit]

RECURSIVE Flatten(_)
Flatten(ss) == IF ss = << >> THEN << >> ELSE Head(ss) \o Flatten(Tail(ss))

\* The tickers fetched up to log position n.
FetchedBefore(n) ==
    UNION { { log[j].unit[h] : h \in 1..Len(log[j].unit) }
            : j \in { g \in 1..n : log[g].ev = "fetch" } }

RecordOf(t, a) == IF collector = "yfinance" THEN YfRecord(t, a) ELSE YqRecord(t, a)

\* C20: scrape_tickers fetches every input ticker once, in input order, in
\* consecutive batches of at most batch_size tickers; it sleeps once after each
\* batch, when exactly the tickers up to the end of that batch have been
\* fetched; and a ticker whose fetch succeeded has the record built from its
\* own answer, whatever happened to the tickers before and after it.
C20_BatchesInOrder ==
    collector # "none" =>
        /\ \A n \in 1..Len(log) :
              log[n].ev = "pause" =>
                  /\ Len(log[n].unit) \in 1..BatchSize
                  /\ FetchedBefore(n)
                        = { tickers[j] : j \in 1..Len(Flatten(PausedBatches(n))) }
        /\ cpc = "done" =>
              /\ Flatten(AttemptedUnits(1, << >>)) = tickers
              /\ Flatten(PausedBatches(Len(log))) = tickers
              /\ \A t \in InputSet :
                    Supplied(t) =>
                        \A j \in RecordsOf(t) : all_data[j] = Item(RecordOf(t, info[t]))
              /\ \A t \in InputSet : Supplied(t) => RecordsOf(t) # {}

\* A finished yahooquery run over the tickers 3, 2, 1: the batch of 3 and 2
\* failed, the batch of 1 was answered, after two sleeps.
C20_Witness ==
    /\ cpc = "done"
    /\ collector = "yahooquery"
    /\ tickers = <<3, 2, 1>>
    /\ failed_tickers = <<3, 2>>
    /\ Supplied(1)
    /\ Len(PausedBatches(Len(log))) = 2

-----------------------------------------------------------------------------
(* The run over the regions: what the claims say *)

\* C14: no failure inside one region's unit of work aborts the whole run:
\* whatever files a region has (an unreadable or unparsable file, a file name
\* whose 14 digits are no date, a consolidated table without a required
\* column, a failing provider call), no exception leaves clean_scraped_data or
\* screen_companies, so the run never ends before its last region.
C14_NoFailureAbortsRun == stage # "raised"

\* No row of the table passes the filter of lines 49-57.
NoValidRow(tbl) == \A j \in 1..Len(tbl) : ~ValidMask(WithMetrics(tbl[j]))

\* screen_companies is about to screen the region the loop is at.
ScreeningRegion == stage = "screen" /\ ~bodyDone

\* C16: when no row of a region's table passes the validity filter,
\* screen_companies writes no screened file for the region (one left by an
\* earlier run stays as it was) and goes on to the remaining regions.
C16_EmptyFilterWritesNothing ==
    [][ (ScreeningRegion /\ cleanExists /\ cleanKind = "ok" /\ NoValidRow(clean))
          => /\ screened' = screened
             /\ screenedExists' = screenedExists
             /\ stage' = "screen"
             /\ bodyDone' ]_vars

\* The second region had no valid row and an output of an earlier run, which
\* is still there when the loop is ready for the third region.
C16_Witness ==
    /\ stage = "screen"
    /\ region = 2
    /\ bodyDone
    /\ lastOp = "screen empty"
    /\ clean # << >>
    /\ NoValidRow(clean)
    /\ screenedExists
    /\ screened # << >>

\* clean_scraped_data is about to process the region the loop is at.
CleaningRegion == stage = "clean" /\ ~bodyDone /\ pc = "idle"

\* What the step did: it went into the refresh branch (it stopped at the
\* column check or at an exception, or it reached the retry loop), or it went
\* into full processing.
RefreshTaken ==
    \/ pc' = "retry"
    \/ lastOp' \in {"refresherror", "refreshabort"}

FullTaken ==
    lastOp' \in {"norebuild", "raised", "rebuild", "rebuild again", "rebuild after refresh"}

\* The row after a refresh: every column of the row before it, with Market
\* Price and Market Cap either kept or replaced by the provider's quote.
RefreshedFrom(new, old) ==
    /\ new.Price \in {old.Price, Fresh.price}
    /\ new.Cap \in {old.Cap, Fresh.cap}
    /\ [new EXCEPT !.Price = 0, !.Cap = 0] = [old EXCEPT !.Price = 0, !.Cap = 0]

\* C17: per region, clean_scraped_data performs a partial refresh if and only
\* if skip is False and the region's consolidated file exists, and a full
\* rebuild from the scrape files in every other case; a partial refresh does
\* not read the scrape files: whatever they hold, it does not raise on them
\* and the table it writes has the rows of the table it read, with only
\* prices and market caps replaced by the provider's values.
C17_ModeSelection ==
    [][ /\ CleaningRegion =>
            /\ RefreshTaken <=> (skip = FALSE /\ cleanExists)
            /\ FullTaken <=> ~(skip = FALSE /\ cleanExists)
        /\ (stage = "clean" /\ pc = "retry" /\ pc' = "idle") =>
            /\ Len(clean') = Len(clean)
            /\ \A j \in 1..Len(clean) : RefreshedFrom(clean'[j], clean[j]) ]_vars

\* A refresh completed in a region whose directory holds a file that a full
\* rebuild would raise on, and the table has the provider's price.
C17_Witness ==
    /\ stage = "clean"
    /\ skip = FALSE
    /\ bodyDone
    /\ lastOp = "refresh"
    /\ \E n \in FileNames : scraped[n].kind = "baddate" /\ scraped[n].rows # << >>
    /\ \E j \in 1..Len(clean) : clean[j].Price = Fresh.price

\* The step is a full processing of the region.
RebuildingRegion == CleaningRegion /\ ~(skip = FALSE /\ cleanExists)

\* Files whose name ends in _<14 digits>.csv and that parse.
ParsedFiles == { n \in FileNames : scraped[n].kind \in {"ok", "baddate"} }

\* The timestamps of the rows read are dates (section 6 of the naming
\* convention).
StampsAreDates ==
    \A n \in FileNames : scraped[n].kind = "baddate" => scraped[n].rows = << >>

RefreshingWithoutColumns ==
    CleaningRegion /\ skip = FALSE /\ cleanExists /\ cleanKind = "nomarket"

\* C19: in a partial refresh of a consolidated file that lacks the Ticker,
\* Market Price or Market Cap column, only that region's refresh is aborted:
\* the provider is not called (no request is made and nothing is fetched),
\* the consolidated file is left unchanged, and the loop goes on to the
\* remaining regions.
C19_MissingColumnsAbortRegionOnly ==
    [][ RefreshingWithoutColumns =>
          /\ lastOp' = "refreshabort"
          /\ pc' = "idle"
          /\ data' = data
          /\ failed' = failed
          /\ clean' = clean
          /\ cleanExists' = cleanExists
          /\ cleanKind' = cleanKind
          /\ stage' = "clean"
          /\ bodyDone' ]_vars

\* The second region's refresh was aborted for its columns, its table is as
\* it was, and the loop is ready for the third region.
C19_Witness ==
    /\ stage = "clean"
    /\ region = 2
    /\ bodyDone
    /\ lastOp = "refreshabort"
    /\ cleanKind = "nomarket"
    /\ clean # << >>

-----------------------------------------------------------------------------
(* End to end: what the claims say *)

\* The rows of ticker t in the file named n.
RowsOf(n, t) ==
    { scraped[n].rows[j] : j \in { h \in 1..Len(scraped[n].rows) : scraped[n].rows[h].Ticker = t } }

\* The later record differs from the earlier one in Market Cap and Price at
\* most.
OnlyMarketDiffers(later, earlier) ==
    [later EXCEPT !.Price = 0, !.Cap = 0] = [earlier EXCEPT !.Price = 0, !.Cap = 0]

\* The cell x holds the quotient a / b.
IsQuotient(x, a, b) == x.d # 0 /\ x.n * b = a * x.d

\* The screened row of a record: its price and market cap, and the four
\* ratios of its values with EBIT = Sales - COGS - Operating Expenses.
ScreenedFrom(out, r) ==
    /\ out.Price = r.Price
    /\ out.Cap = r.Cap
    /\ IsQuotient(out.EY, r.Sales - r.Cogs - r.Opex, r.Cap)
    /\ IsQuotient(out.ROIC, r.Sales - r.Cogs - r.Opex, r.IC)
    /\ IsQuotient(out.DP, r.Div, r.Price)
    /\ IsQuotient(out.DE, r.Debt, r.Equity)

Screened == lastOp \in {"screen", "screen empty"}

\* C15: after a full rebuild followed by screening, a ticker present in two
\* scrape files of which the later differs from the earlier only in Market
\* Cap and Price has one screened row, and its ratios are those of the later
\* file's values: EBIT yield = EBIT / later Market Cap, ROIC = EBIT / Invested
\* Capital, dividend yield = Dividends / later Price, debt ratio = Total Debt
\* / Common Equity, with EBIT = Sales - COGS - Operating Expenses.
C15_EndToEnd ==
    Screened =>
      \A t \in ScrapeTickers : \A a, b \in FileNames :
        \A earlier \in RowsOf(a, t) : \A later \in RowsOf(b, t) :
          (scraped[a].stamp < scraped[b].stamp /\ OnlyMarketDiffers(later, earlier))
            => /\ Cardinality({ j \in 1..Len(screened) : screened[j].Ticker = t }) = 1
               /\ \A j \in 1..Len(screened) :
                     screened[j].Ticker = t => ScreenedFrom(screened[j], later)

\* The scenario of the specification: ticker 1 with Sales=100, COGS=40,
\* Opex=20, Invested Capital=500, Dividends=1, Total Debt=50, Common
\* Equity=200, Market Cap 1000 and Price 10 in the earlier file, 1200 and 12
\* in the later one; its screened row has 40/1200, 40/500, 1/12 and 50/200.
C15_Witness ==
    /\ lastOp = "screen"
    /\ \E a, b \in FileNames :
         /\ scraped[a].stamp < scraped[b].stamp
         /\ \E earlier \in RowsOf(a, 1) : earlier.Cap = 1000 /\ earlier.Price = 10
         /\ \E later \in RowsOf(b, 1) : later.Cap = 1200 /\ later.Price = 12
         /\ FileTickers(a) = {1, 2}
    /\ \E j \in 1..Len(screened) :
         /\ screened[j].Ticker = 1
         /\ screened[j].Cap = 1200
         /\ screened[j].Price = 12
         /\ screened[j].EY = [n |-> 1, d |-> 30]
         /\ screened[j].ROIC = [n |-> 2, d |-> 25]
         /\ screened[j].DP = [n |-> 1, d |-> 12]
         /\ screened[j].DE = [n |-> 1, d |-> 4]
    /\ Len(screened) = 2

-----------------------------------------------------------------------------
(* Rebuild after refresh: what the claims say *)

\* The scrape files read successfully.
ReadFiles == { n \in FileNames : scraped[n].kind = "ok" }

\* The table is what the scrape files alone determine: one row per ticker of
\* the files read, each the row of a file with the latest timestamp among
\* those that hold the ticker.
FromScrapeFilesAlone(tbl) ==
    /\ TickerSet(tbl) = UNION { FileTickers(n) : n \in ReadFiles }
    /\ \A j, h \in 1..Len(tbl) : tbl[j].Ticker = tbl[h].Ticker => j = h
    /\ \A j \in 1..Len(tbl) :
          \E n \in FileNames :
             IsLatestHolder(n, tbl[j].Ticker) /\ tbl[j] = RowIn(n, tbl[j].Ticker)

\* C23: a full rebuild does not preserve the effect of an earlier partial
\* refresh: the table written by a full rebuild that follows a completed
\* partial refresh, over unchanged scrape files, is the one the scrape files
\* alone determine, so every Market Price and Market Cap the refresh wrote is
\* replaced by the value of the latest scrape file.
C23_RebuildDiscardsRefresh ==
    [][ (lastOp = "refresh" /\ Rebuilt' /\ scraped' = scraped)
          => FromScrapeFilesAlone(clean') ]_vars

\* A rebuild that followed a partial refresh: the table holds the price and
\* market cap of the latest file for ticker 1, which the provider quotes
\* differently.
C23_Witness ==
    /\ lastOp = "rebuild after refresh"
    /\ scraped["us_a"].kind = "ok" /\ scraped["us_b"].kind = "ok"
    /\ scraped["us_a"].stamp < scraped["us_b"].stamp
    /\ 1 \in FileTickers("us_a") \cap FileTickers("us_b")
    /\ RowIn("us_b", 1).Price = 3
    /\ Len(clean) >= 1 /\ clean[1].Ticker = 1
    /\ clean[1].Price = 3 /\ clean[1].Cap = 4
    /\ clean[1].Price # Fresh.price /\ clean[1].Cap # Fresh.cap

-----------------------------------------------------------------------------
(* Ranks of the filtered rows: what the claims say *)

\* C22: every row that passes the validity filter has all its ranks: with N
\* filtered rows its EBIT-yield, ROIC and dividend-yield ranks and its debt
\* rank lie in 1..N, also when its Common Equity is zero or negative; its
\* composite rank lies in 1..N, and the combined score of the row and of
\* every output row lies in 3..3N.
C22_RanksDefined ==
    lastOp = "screen" =>
        LET N == Len(valid) IN
        /\ \A j \in 1..N :
              /\ valid[j].EYRank \in 1..N
              /\ valid[j].ROICRank \in 1..N
              /\ valid[j].DPRank \in 1..N
              /\ valid[j].DERank \in 1..N
              /\ valid[j].composite_rank \in 1..N
              /\ valid[j].Combined_rank \in 3..(3 * N)
        /\ Len(screened) = N
        /\ \A h \in 1..Len(screened) : screened[h].Combined_rank \in 3..(3 * N)

\* Three filtered rows, one with zero and one with negative Common Equity,
\* the latter two with debt ranks 2 and 3, and a row that is best in all.
C22_Witness ==
    /\ lastOp = "screen"
    /\ Len(valid) = 3
    /\ \E j, h \in 1..Len(valid) :
          /\ valid[j].row.Equity = 0
          /\ valid[h].row.Equity < 0
          /\ {valid[j].DERank, valid[h].DERank} = {2, 3}
    /\ \E j \in 1..Len(valid) : valid[j].Combined_rank = 3
    /\ \E h \in 1..Len(screened) : screened[h].Combined_rank > 3

-----------------------------------------------------------------------------
(* The scrape directory: what the claims say *)

\* C21: a scrape file is never mutated after its creation: whatever the
\* collectors run, every file of data/scraped_data is still there afterwards
\* under its name with the content it had; a run only adds a file.
C21_ScrapeFilesNeverRewritten ==
    [][ \A f \in output_dir : f \in output_dir' ]_vars

====
